---- MODULE Spec2Model ----
(***************************************************************************)
(* PRECEDENT front end: AuthProvider (session), LoginPage and Dashboard    *)
(* (case intake form, confirmation, analyzing, results) as one state       *)
(* machine.  Every event handler is one action up to its await; the        *)
(* continuation after the await is the matching response action.           *)
(* Text typed by the user is a sequence of one-character strings; values   *)
(* chosen by the backend (tokens, usernames, bodies) are opaque strings.   *)
(***************************************************************************)
EXTENDS Integers, Sequences, FiniteSets, TLC

\* ---------------------------------------------------------------- bounds
MaxStrLen == 1
MaxInFlight == 2

\* ------------------------------------------------------- program constants
InfoLimit == 1000

MsgCrimeCode == "Crime/Penal Code is required"
MsgJurisdiction == "Jurisdiction is required"
MsgAdditionalInfo == "Additional information must be 1000 characters or less"
MsgUsername == "Username is required"
MsgPassword == "Password is required"
MsgLoginDefault == "Login failed. Please check your credentials."
MsgLoginThrown == "Login failed. Please try again."

TokenKey == "precedent_token"
AuthHeader == "Authorization"

\* ------------------------------------------------------------ value sets
\* null / undefined where a string is expected, and where an object is expected
NULL == "null"
NullObj == [null |-> TRUE]
Chars == {" ", "a"}
Strs == UNION {[1..n -> Chars] : n \in 0..MaxStrLen}
Rep(n) == [i \in 1..n |-> "a"]
InfoVals == {Rep(0), Rep(InfoLimit), Rep(InfoLimit + 1)}

Tokens == {"t1", "t2"}
Usernames == {"alice"}
ServerMessages == {NULL, "Invalid credentials"}
ConfirmBodies == {NULL, "summary1", "summary2"}
AnalysisBodies == {NULL, "analysis1", "analysis2"}

EmptyObj == [k \in {} |-> ""]

\* what ran last, with the response body handed to a continuation
Op(name, data) == [op |-> name, data |-> data]

\* ------------------------------------------------------- pure functions
\* String.prototype.trim: strip white space from both ends.
RECURSIVE TrimStart(_)
TrimStart(s) == IF s # <<>> /\ Head(s) = " " THEN TrimStart(Tail(s)) ELSE s

RECURSIVE TrimEnd(_)
TrimEnd(s) ==
  IF s # <<>> /\ s[Len(s)] = " " THEN TrimEnd(SubSeq(s, 1, Len(s) - 1)) ELSE s

Trim(s) == TrimEnd(TrimStart(s))

\* `Bearer ${token}`
BearerBare(token) == token

Bearer(token) == "Bearer " \o token

\* a || b on a possibly missing message
OrElse(a, b) == IF a # NULL THEN a ELSE b

\* initial useState values
DashboardFormInit == [crime_code |-> <<>>, jurisdiction |-> <<>>, additional_info |-> <<>>]
LoginFormInit == [username |-> <<>>, password |-> <<>>]

\* Dashboard validateForm: the newErrors object it builds
DashboardNewErrorsOffByOne(fd) ==
  (IF Trim(fd.crime_code) = <<>> THEN "crime_code" :> MsgCrimeCode ELSE EmptyObj)
  @@ (IF Trim(fd.jurisdiction) = <<>> THEN "jurisdiction" :> MsgJurisdiction ELSE EmptyObj)
  @@ (IF fd.additional_info # <<>> /\ Len(fd.additional_info) >= InfoLimit
        THEN "additional_info" :> MsgAdditionalInfo ELSE EmptyObj)

DashboardNewErrorsNoTrim(fd) ==
  (IF fd.crime_code = <<>> THEN "crime_code" :> MsgCrimeCode ELSE EmptyObj)
  @@ (IF fd.jurisdiction = <<>> THEN "jurisdiction" :> MsgJurisdiction ELSE EmptyObj)
  @@ (IF fd.additional_info # <<>> /\ Len(fd.additional_info) > InfoLimit
        THEN "additional_info" :> MsgAdditionalInfo ELSE EmptyObj)

DashboardNewErrors(fd) ==
  (IF Trim(fd.crime_code) = <<>> THEN "crime_code" :> MsgCrimeCode ELSE EmptyObj)
  @@ (IF Trim(fd.jurisdiction) = <<>> THEN "jurisdiction" :> MsgJurisdiction ELSE EmptyObj)
  @@ (IF fd.additional_info # <<>> /\ Len(fd.additional_info) > InfoLimit
        THEN "additional_info" :> MsgAdditionalInfo ELSE EmptyObj)

\* LoginPage validateForm: the newErrors object it builds
LoginNewErrorsNoTrim(fd) ==
  (IF fd.username = <<>> THEN "username" :> MsgUsername ELSE EmptyObj)
  @@ (IF fd.password = <<>> THEN "password" :> MsgPassword ELSE EmptyObj)

LoginNewErrors(fd) ==
  (IF Trim(fd.username) = <<>> THEN "username" :> MsgUsername ELSE EmptyObj)
  @@ (IF Trim(fd.password) = <<>> THEN "password" :> MsgPassword ELSE EmptyObj)

\* Object.keys(newErrors).length === 0
NoErrors(newErrors) == DOMAIN newErrors = {}

\* errors after "clear errors when user starts typing"
ClearError(errs, name) ==
  IF name \in DOMAIN errs /\ errs[name] # "" THEN [errs EXCEPT ![name] = ""] ELSE errs

\* ----------------------------------------------------------------- state
VARIABLES
  localStorage,     \* window.localStorage, key -> value
  headers,          \* api.defaults.headers.common, name -> value
  user,             \* AuthProvider user
  authLoading,      \* AuthProvider loading
  isAuthenticated,  \* AuthProvider isAuthenticated
  mounted,          \* has the AuthProvider mount effect run
  loginFormData,    \* LoginPage formData
  loginErrors,      \* LoginPage errors
  loginResult,      \* value the last completed login() resolved to
  activeTab,        \* Dashboard activeTab
  formData,         \* Dashboard formData
  loading,          \* Dashboard loading
  confirmation,     \* Dashboard confirmation
  analysis,         \* Dashboard analysis
  errors,           \* Dashboard errors
  confirmReturned,  \* history: /legal/confirm has succeeded since mount or resetForm
  inflight,         \* HTTP requests awaiting their response
  loggedOut,        \* history: logout has run and login has not been called since
  lastOp            \* the handler or continuation that ran last

authVars == <<localStorage, headers, user, authLoading, isAuthenticated>>
loginVars == <<loginFormData, loginErrors>>
dashVars == <<activeTab, formData, loading, confirmation, analysis, errors, confirmReturned>>
vars == <<localStorage, headers, user, authLoading, isAuthenticated, mounted,
          loginFormData, loginErrors, loginResult, activeTab, formData, loading,
          confirmation, analysis, errors, confirmReturned, inflight, loggedOut,
          lastOp>>

\* ------------------------------------------------------------- rendering
\* Which page is on screen: the dashboard for an authenticated session,
\* the login page otherwise.
DashboardShown == mounted /\ isAuthenticated
LoginPageShown == mounted /\ ~isAuthenticated

\* A page that leaves the screen is unmounted: its state is discarded and the
\* continuations of its pending handlers no longer reach a live component.
\* The request stays in flight; the payload it was sent with is not kept,
\* since nothing reads it again.
Orphaned(reqs, owner) ==
  [i \in 1..Len(reqs) |->
     IF reqs[i].owner = owner
       THEN [reqs[i] EXCEPT !.live = FALSE, !.data = NullObj]
       ELSE reqs[i]]

Without(reqs, i) == SubSeq(reqs, 1, i - 1) \o SubSeq(reqs, i + 1, Len(reqs))

Request(url, data, owner) == [url |-> url, data |-> data, owner |-> owner, live |-> TRUE]

FreshDashboard ==
  /\ activeTab' = "form"
  /\ formData' = DashboardFormInit
  /\ loading' = FALSE
  /\ confirmation' = NULL
  /\ analysis' = NULL
  /\ errors' = EmptyObj
  /\ confirmReturned' = FALSE

FreshLoginPage ==
  /\ loginFormData' = LoginFormInit
  /\ loginErrors' = EmptyObj

\* ------------------------------------------------------------------ Init
Init ==
  /\ localStorage \in {EmptyObj} \cup {TokenKey :> t : t \in Tokens}
  /\ headers = EmptyObj
  /\ user = NullObj
  /\ authLoading = TRUE
  /\ isAuthenticated = FALSE
  /\ mounted = FALSE
  /\ loginFormData = LoginFormInit
  /\ loginErrors = EmptyObj
  /\ loginResult = NullObj
  /\ activeTab = "form"
  /\ formData = DashboardFormInit
  /\ loading = FALSE
  /\ confirmation = NULL
  /\ analysis = NULL
  /\ errors = EmptyObj
  /\ confirmReturned = FALSE
  /\ inflight = <<>>
  /\ loggedOut = FALSE
  /\ lastOp = Op("mount", NullObj)

\* ---------------------------------------------------------- AuthProvider
\* localStorage.removeItem / delete headers[...]
RemoveKey(obj, key) == [k \in DOMAIN obj \ {key} |-> obj[k]]

\* localStorage.setItem / headers[...] = value
SetKey(obj, key, value) == (key :> value) @@ obj

\* The session becomes authenticated: the login page leaves the screen.
EnterDashboard(reqs) ==
  /\ FreshLoginPage
  /\ UNCHANGED dashVars
  /\ inflight' = Orphaned(reqs, "LoginPage")

\* The session stops being authenticated: the dashboard leaves the screen.
LeaveDashboard(reqs) ==
  /\ FreshDashboard
  /\ UNCHANGED loginVars
  /\ inflight' = Orphaned(reqs, "Dashboard")

\* useEffect(() => { checkAuthStatus(); }, []) up to the await
CheckAuthStatus ==
  /\ ~mounted
  /\ mounted' = TRUE
  /\ IF TokenKey \in DOMAIN localStorage
       THEN /\ inflight' = Append(inflight,
                  Request("/auth/verify", [token |-> localStorage[TokenKey]], "AuthProvider"))
            /\ UNCHANGED authLoading
       ELSE /\ authLoading' = FALSE
            /\ UNCHANGED inflight
  /\ lastOp' = Op("checkAuthStatus", NullObj)
  /\ UNCHANGED <<localStorage, headers, user, isAuthenticated, loginResult, loggedOut>>
  /\ UNCHANGED <<loginVars, dashVars>>

\* checkAuthStatus after the await: response.data.success
VerifySucceeds(i, username) ==
  /\ i \in 1..Len(inflight)
  /\ inflight[i].url = "/auth/verify"
  /\ user' = [username |-> username]
  /\ isAuthenticated' = TRUE
  /\ headers' = SetKey(headers, AuthHeader, Bearer(inflight[i].data.token))
  /\ authLoading' = FALSE
  /\ IF isAuthenticated
       THEN UNCHANGED <<loginVars, dashVars>> /\ inflight' = Without(inflight, i)
       ELSE EnterDashboard(Without(inflight, i))
  /\ lastOp' = Op("verify:success", [success |-> TRUE, username |-> username])
  /\ UNCHANGED <<localStorage, mounted, loggedOut, loginResult>>

\* checkAuthStatus after the await: success false, or the request throws
VerifyFailsKeepsToken(i, outcome) ==
  /\ i \in 1..Len(inflight)
  /\ inflight[i].url = "/auth/verify"
  /\ outcome \in {"rejected", "thrown"}
  /\ localStorage' = IF outcome = "thrown" THEN localStorage
                                           ELSE RemoveKey(localStorage, TokenKey)
  /\ authLoading' = FALSE
  /\ inflight' = Without(inflight, i)
  /\ lastOp' = Op("verify:" \o outcome, NullObj)
  /\ UNCHANGED <<headers, user, isAuthenticated, mounted, loggedOut, loginResult>>
  /\ UNCHANGED <<loginVars, dashVars>>

VerifyFails(i, outcome) ==
  /\ i \in 1..Len(inflight)
  /\ inflight[i].url = "/auth/verify"
  /\ outcome \in {"rejected", "thrown"}
  /\ localStorage' = RemoveKey(localStorage, TokenKey)
  /\ authLoading' = FALSE
  /\ inflight' = Without(inflight, i)
  /\ lastOp' = Op("verify:" \o outcome, NullObj)
  /\ UNCHANGED <<headers, user, isAuthenticated, mounted, loggedOut, loginResult>>
  /\ UNCHANGED <<loginVars, dashVars>>

\* login(username, password) up to the await
LoginNoRequest(username, password) ==
  /\ authLoading' = TRUE
  /\ UNCHANGED inflight

Login(username, password) ==
  /\ authLoading' = TRUE
  /\ inflight' = Append(inflight,
        Request("/auth/login", [username |-> username, password |-> password], "LoginPage"))

\* login after the await, response.data.success; then handleSubmit resumes
LoginSucceedsStoresUser(i, token, returnedUsername) ==
  /\ i \in 1..Len(inflight)
  /\ inflight[i].url = "/auth/login"
  /\ localStorage' = SetKey(SetKey(localStorage, TokenKey, token),
                            "precedent_user", returnedUsername)
  /\ user' = [username |-> returnedUsername]
  /\ isAuthenticated' = TRUE
  /\ headers' = SetKey(headers, AuthHeader, Bearer(token))
  /\ authLoading' = FALSE
  /\ loginResult' = [success |-> TRUE]
  /\ IF isAuthenticated
       THEN UNCHANGED <<loginVars, dashVars>> /\ inflight' = Without(inflight, i)
       ELSE EnterDashboard(Without(inflight, i))
  /\ lastOp' = Op("login:success",
                 [success |-> TRUE, token |-> token, username |-> returnedUsername])
  /\ UNCHANGED <<mounted, loggedOut>>

\* login after the await, response.data.success; then handleSubmit resumes
LoginSucceeds(i, token, returnedUsername) ==
  /\ i \in 1..Len(inflight)
  /\ inflight[i].url = "/auth/login"
  /\ localStorage' = SetKey(localStorage, TokenKey, token)
  /\ user' = [username |-> returnedUsername]
  /\ isAuthenticated' = TRUE
  /\ headers' = SetKey(headers, AuthHeader, Bearer(token))
  /\ authLoading' = FALSE
  /\ loginResult' = [success |-> TRUE]
  /\ IF isAuthenticated
       THEN UNCHANGED <<loginVars, dashVars>> /\ inflight' = Without(inflight, i)
       ELSE EnterDashboard(Without(inflight, i))
  /\ lastOp' = Op("login:success",
                 [success |-> TRUE, token |-> token, username |-> returnedUsername])
  /\ UNCHANGED <<mounted, loggedOut>>

\* the message login reports when it does not succeed
LoginFailureMessage(outcome, message) ==
  IF outcome = "rejected" THEN message ELSE OrElse(message, MsgLoginThrown)

\* login after the await, success false or the request throws; then
\* handleSubmit resumes and shows the general error
LoginFails(i, outcome, message) ==
  /\ i \in 1..Len(inflight)
  /\ inflight[i].url = "/auth/login"
  /\ outcome \in {"rejected", "thrown"}
  /\ authLoading' = FALSE
  /\ loginResult' = [success |-> FALSE, message |-> LoginFailureMessage(outcome, message)]
  /\ loginErrors' =
       IF inflight[i].live
         THEN [general |-> OrElse(LoginFailureMessage(outcome, message), MsgLoginDefault)]
         ELSE loginErrors
  /\ inflight' = Without(inflight, i)
  /\ lastOp' = Op("login:" \o outcome, [message |-> message])
  /\ UNCHANGED <<localStorage, headers, user, isAuthenticated, mounted, loggedOut, loginFormData>>
  /\ UNCHANGED dashVars

\* the session fields logout leaves behind
LogoutKeepsHeader ==
  /\ localStorage' = RemoveKey(localStorage, TokenKey)
  /\ UNCHANGED headers
  /\ user' = NullObj
  /\ isAuthenticated' = FALSE

LogoutSession ==
  /\ localStorage' = RemoveKey(localStorage, TokenKey)
  /\ headers' = RemoveKey(headers, AuthHeader)
  /\ user' = NullObj
  /\ isAuthenticated' = FALSE

\* logout, from the dashboard header button
Logout ==
  /\ DashboardShown
  /\ LogoutSession
  /\ LeaveDashboard(inflight)
  /\ loggedOut' = TRUE
  /\ lastOp' = Op("logout", NullObj)
  /\ UNCHANGED <<authLoading, mounted, loginResult>>

\* The page is loaded again: memory is lost, localStorage survives.
Reload ==
  /\ mounted
  /\ headers' = EmptyObj
  /\ user' = NullObj
  /\ authLoading' = TRUE
  /\ isAuthenticated' = FALSE
  /\ mounted' = FALSE
  /\ loginResult' = NullObj
  /\ FreshLoginPage
  /\ FreshDashboard
  /\ inflight' = <<>>
  /\ loggedOut' = FALSE
  /\ lastOp' = Op("mount", NullObj)
  /\ UNCHANGED localStorage

\* -------------------------------------------------------------- LoginPage
\* inputs and Sign In are disabled while the session is loading
LoginFormEnabled == LoginPageShown /\ ~authLoading

\* handleChange
HandleChange(name, value) ==
  /\ LoginFormEnabled
  /\ name \in {"username", "password"}
  /\ value \in Strs
  /\ loginFormData' = [loginFormData EXCEPT ![name] = value]
  /\ loginErrors' = ClearError(loginErrors, name)
  /\ lastOp' = Op("handleChange", NullObj)
  /\ UNCHANGED <<authVars, mounted, loggedOut, loginResult, dashVars, inflight>>

\* handleSubmit up to the await inside login
HandleSubmit ==
  /\ LoginFormEnabled
  /\ loginErrors' = LoginNewErrors(loginFormData)
  /\ IF NoErrors(LoginNewErrors(loginFormData))
       THEN /\ Len(inflight) < MaxInFlight
            /\ Login(loginFormData.username, loginFormData.password)
            /\ loggedOut' = FALSE
       ELSE UNCHANGED <<authLoading, inflight, loggedOut>>
  /\ lastOp' = Op("handleSubmit", NullObj)
  /\ UNCHANGED <<localStorage, headers, user, isAuthenticated, mounted>>
  /\ UNCHANGED <<loginFormData, loginResult, dashVars>>

\* -------------------------------------------------------------- Dashboard
\* the intake form is rendered on the form tab; its controls are disabled
\* while loading
FormEnabledAnyTab == DashboardShown /\ ~loading

FormEnabledWhileLoading == DashboardShown /\ activeTab = "form"

FormEnabled == DashboardShown /\ activeTab = "form" /\ ~loading

\* Back to Edit and Proceed with Analysis are rendered on the confirmation
\* tab when there is a confirmation; both are disabled while loading
ConfirmationActionsEnabledAnyTab ==
  DashboardShown /\ ~loading

ConfirmationActionsEnabled ==
  DashboardShown /\ activeTab = "confirmation" /\ confirmation # NULL /\ ~loading

\* New Analysis is rendered on the results tab when there is an analysis
NewAnalysisEnabledAnyTab == DashboardShown

NewAnalysisEnabled == DashboardShown /\ activeTab = "results" /\ analysis # NULL

\* handleInputChange
HandleInputChange(name, value) ==
  /\ FormEnabled
  /\ \/ name \in {"crime_code", "jurisdiction"} /\ value \in Strs
     \/ name = "additional_info" /\ value \in InfoVals
  /\ formData' = [formData EXCEPT ![name] = value]
  /\ errors' = ClearError(errors, name)
  /\ lastOp' = Op("handleInputChange", NullObj)
  /\ UNCHANGED <<authVars, mounted, loggedOut, loginVars, loginResult, inflight>>
  /\ UNCHANGED <<activeTab, loading, confirmation, analysis, confirmReturned>>

\* handleSubmitForConfirmation up to the await
HandleSubmitForConfirmation ==
  /\ FormEnabled
  /\ errors' = DashboardNewErrors(formData)
  /\ IF NoErrors(DashboardNewErrors(formData))
       THEN /\ Len(inflight) < MaxInFlight
            /\ loading' = TRUE
            /\ inflight' = Append(inflight, Request("/legal/confirm", formData, "Dashboard"))
       ELSE UNCHANGED <<loading, inflight>>
  /\ lastOp' = Op("handleSubmitForConfirmation", NullObj)
  /\ UNCHANGED <<authVars, mounted, loggedOut, loginVars, loginResult>>
  /\ UNCHANGED <<activeTab, formData, confirmation, analysis, confirmReturned>>

\* handleSubmitForConfirmation after the await, the request succeeded
ConfirmSucceeds(i, body) ==
  /\ i \in 1..Len(inflight)
  /\ inflight[i].url = "/legal/confirm"
  /\ inflight[i].live
  /\ confirmation' = body
  /\ confirmReturned' = TRUE
  /\ activeTab' = "confirmation"
  /\ loading' = FALSE
  /\ inflight' = Without(inflight, i)
  /\ lastOp' = Op("confirm:success", [body |-> body])
  /\ UNCHANGED <<authVars, mounted, loggedOut, loginVars, loginResult>>
  /\ UNCHANGED <<formData, analysis, errors>>

\* handleSubmitForConfirmation after the await, the request threw
ConfirmFailsAdvances(i) ==
  /\ i \in 1..Len(inflight)
  /\ inflight[i].url = "/legal/confirm"
  /\ inflight[i].live
  /\ activeTab' = "confirmation"
  /\ loading' = FALSE
  /\ inflight' = Without(inflight, i)
  /\ lastOp' = Op("confirm:thrown", NullObj)
  /\ UNCHANGED <<authVars, mounted, loggedOut, loginVars, loginResult>>
  /\ UNCHANGED <<formData, confirmation, analysis, errors, confirmReturned>>

ConfirmFailsRetry(i) ==
  /\ i \in 1..Len(inflight)
  /\ inflight[i].url = "/legal/confirm"
  /\ inflight[i].live
  /\ inflight' = Append(Without(inflight, i), inflight[i])
  /\ lastOp' = Op("confirm:thrown", NullObj)
  /\ UNCHANGED <<authVars, mounted, loggedOut, loginVars, loginResult>>
  /\ UNCHANGED <<activeTab, formData, loading, confirmation, analysis, errors, confirmReturned>>

\* handleSubmitForConfirmation after the await, the request threw
ConfirmFails(i) ==
  /\ i \in 1..Len(inflight)
  /\ inflight[i].url = "/legal/confirm"
  /\ inflight[i].live
  /\ loading' = FALSE
  /\ inflight' = Without(inflight, i)
  /\ lastOp' = Op("confirm:thrown", NullObj)
  /\ UNCHANGED <<authVars, mounted, loggedOut, loginVars, loginResult>>
  /\ UNCHANGED <<activeTab, formData, confirmation, analysis, errors, confirmReturned>>

\* Back to Edit: onClick={() => setActiveTab('form')}
BackToEdit ==
  /\ ConfirmationActionsEnabled
  /\ activeTab' = "form"
  /\ lastOp' = Op("backToEdit", NullObj)
  /\ UNCHANGED <<authVars, mounted, loggedOut, loginVars, loginResult, inflight>>
  /\ UNCHANGED <<formData, loading, confirmation, analysis, errors, confirmReturned>>

\* handleConfirmAndAnalyze up to the await
HandleConfirmAndAnalyze ==
  /\ ConfirmationActionsEnabled
  /\ Len(inflight) < MaxInFlight
  /\ loading' = TRUE
  /\ activeTab' = "analyzing"
  /\ inflight' = Append(inflight, Request("/legal/analyze", formData, "Dashboard"))
  /\ lastOp' = Op("handleConfirmAndAnalyze", NullObj)
  /\ UNCHANGED <<authVars, mounted, loggedOut, loginVars, loginResult>>
  /\ UNCHANGED <<formData, confirmation, analysis, errors, confirmReturned>>

\* handleConfirmAndAnalyze after the await, the request succeeded
AnalyzeSucceedsKeepsOld(i, body) ==
  /\ i \in 1..Len(inflight)
  /\ inflight[i].url = "/legal/analyze"
  /\ inflight[i].live
  /\ activeTab' = "results"
  /\ loading' = FALSE
  /\ inflight' = Without(inflight, i)
  /\ lastOp' = Op("analyze:success", [body |-> body])
  /\ UNCHANGED <<authVars, mounted, loggedOut, loginVars, loginResult>>
  /\ UNCHANGED <<formData, confirmation, analysis, errors, confirmReturned>>

\* handleConfirmAndAnalyze after the await, the request succeeded
AnalyzeSucceeds(i, body) ==
  /\ i \in 1..Len(inflight)
  /\ inflight[i].url = "/legal/analyze"
  /\ inflight[i].live
  /\ analysis' = body
  /\ activeTab' = "results"
  /\ loading' = FALSE
  /\ inflight' = Without(inflight, i)
  /\ lastOp' = Op("analyze:success", [body |-> body])
  /\ UNCHANGED <<authVars, mounted, loggedOut, loginVars, loginResult>>
  /\ UNCHANGED <<formData, confirmation, errors, confirmReturned>>

\* handleConfirmAndAnalyze after the await, the request threw
AnalyzeFailsToForm(i) ==
  /\ i \in 1..Len(inflight)
  /\ inflight[i].url = "/legal/analyze"
  /\ inflight[i].live
  /\ activeTab' = "form"
  /\ loading' = FALSE
  /\ inflight' = Without(inflight, i)
  /\ lastOp' = Op("analyze:thrown", NullObj)
  /\ UNCHANGED <<authVars, mounted, loggedOut, loginVars, loginResult>>
  /\ UNCHANGED <<formData, confirmation, analysis, errors, confirmReturned>>

\* handleConfirmAndAnalyze after the await, the request threw
AnalyzeFails(i) ==
  /\ i \in 1..Len(inflight)
  /\ inflight[i].url = "/legal/analyze"
  /\ inflight[i].live
  /\ activeTab' = "confirmation"
  /\ loading' = FALSE
  /\ inflight' = Without(inflight, i)
  /\ lastOp' = Op("analyze:thrown", NullObj)
  /\ UNCHANGED <<authVars, mounted, loggedOut, loginVars, loginResult>>
  /\ UNCHANGED <<formData, confirmation, analysis, errors, confirmReturned>>

\* the Dashboard's useState values as one record
DashboardState ==
  [activeTab |-> activeTab, formData |-> formData, loading |-> loading,
   confirmation |-> confirmation, analysis |-> analysis, errors |-> errors]

\* resetForm as a function of the Dashboard's state
ResetFormResultKeepsErrors(d) ==
  [d EXCEPT !.formData = DashboardFormInit,
            !.confirmation = NULL,
            !.analysis = NULL,
            !.activeTab = "form"]

ResetFormResult(d) ==
  [d EXCEPT !.formData = DashboardFormInit,
            !.confirmation = NULL,
            !.analysis = NULL,
            !.errors = EmptyObj,
            !.activeTab = "form"]

\* resetForm, from New Analysis
ResetForm ==
  /\ NewAnalysisEnabled
  /\ formData' = ResetFormResult(DashboardState).formData
  /\ confirmation' = ResetFormResult(DashboardState).confirmation
  /\ analysis' = ResetFormResult(DashboardState).analysis
  /\ errors' = ResetFormResult(DashboardState).errors
  /\ activeTab' = ResetFormResult(DashboardState).activeTab
  /\ confirmReturned' = FALSE
  /\ lastOp' = Op("resetForm", NullObj)
  /\ UNCHANGED <<authVars, mounted, loggedOut, loginVars, loginResult, inflight, loading>>

\* A response for a handler of a dashboard that is no longer on screen: its
\* state updates reach no component.
StaleResponse(i) ==
  /\ i \in 1..Len(inflight)
  /\ inflight[i].owner = "Dashboard"
  /\ ~inflight[i].live
  /\ inflight' = Without(inflight, i)
  /\ lastOp' = Op("staleResponse", NullObj)
  /\ UNCHANGED <<authVars, mounted, loggedOut, loginVars, loginResult, dashVars>>

\* ------------------------------------------------------------------ Next
Next ==
  \/ CheckAuthStatus
  \/ \E i \in 1..MaxInFlight, u \in Usernames : VerifySucceeds(i, u)
  \/ \E i \in 1..MaxInFlight, o \in {"rejected", "thrown"} : VerifyFails(i, o)
  \/ \E n \in {"username", "password"}, v \in Strs : HandleChange(n, v)
  \/ HandleSubmit
  \/ \E i \in 1..MaxInFlight, t \in Tokens, u \in Usernames : LoginSucceeds(i, t, u)
  \/ \E i \in 1..MaxInFlight, o \in {"rejected", "thrown"}, m \in ServerMessages :
       LoginFails(i, o, m)
  \/ Logout
  \/ Reload
  \/ \E n \in {"crime_code", "jurisdiction", "additional_info"}, v \in Strs \cup InfoVals :
       HandleInputChange(n, v)
  \/ HandleSubmitForConfirmation
  \/ \E i \in 1..MaxInFlight, b \in ConfirmBodies : ConfirmSucceeds(i, b)
  \/ \E i \in 1..MaxInFlight : ConfirmFails(i)
  \/ BackToEdit
  \/ HandleConfirmAndAnalyze
  \/ \E i \in 1..MaxInFlight, b \in AnalysisBodies : AnalyzeSucceeds(i, b)
  \/ \E i \in 1..MaxInFlight : AnalyzeFails(i)
  \/ ResetForm
  \/ \E i \in 1..MaxInFlight : StaleResponse(i)

Spec == Init /\ [][Next]_vars

\* ------------------------------------------- AuthProvider context value
\* The context value hands checkAuthStatus, login and logout to every
\* consumer; nothing in the AuthProvider keeps a consumer from calling one
\* while the response of another is still awaited.

\* checkAuthStatus called through the context, up to the await
ApiCheckAuthStatus ==
  /\ mounted
  /\ IF TokenKey \in DOMAIN localStorage
       THEN /\ Len(inflight) < MaxInFlight
            /\ inflight' = Append(inflight,
                  Request("/auth/verify", [token |-> localStorage[TokenKey]], "AuthProvider"))
            /\ UNCHANGED authLoading
       ELSE /\ authLoading' = FALSE
            /\ UNCHANGED inflight
  /\ lastOp' = Op("checkAuthStatus", NullObj)
  /\ UNCHANGED <<localStorage, headers, user, isAuthenticated, mounted, loginResult, loggedOut>>
  /\ UNCHANGED <<loginVars, dashVars>>

\* login called through the context, up to the await
ApiLogin(username, password) ==
  /\ mounted
  /\ Len(inflight) < MaxInFlight
  /\ Login(username, password)
  /\ loggedOut' = FALSE
  /\ lastOp' = Op("login", NullObj)
  /\ UNCHANGED <<localStorage, headers, user, isAuthenticated, mounted, loginResult>>
  /\ UNCHANGED <<loginVars, dashVars>>

\* logout called through the context
ApiLogout ==
  /\ mounted
  /\ LogoutSession
  /\ LeaveDashboard(inflight)
  /\ loggedOut' = TRUE
  /\ lastOp' = Op("logout", NullObj)
  /\ UNCHANGED <<authLoading, mounted, loginResult>>

NextApi ==
  \/ CheckAuthStatus
  \/ ApiCheckAuthStatus
  \/ \E u \in Strs, p \in Strs : ApiLogin(u, p)
  \/ ApiLogout
  \/ \E i \in 1..MaxInFlight, u \in Usernames : VerifySucceeds(i, u)
  \/ \E i \in 1..MaxInFlight, o \in {"rejected", "thrown"} : VerifyFails(i, o)
  \/ \E i \in 1..MaxInFlight, t \in Tokens, u \in Usernames : LoginSucceeds(i, t, u)
  \/ \E i \in 1..MaxInFlight, o \in {"rejected", "thrown"}, m \in ServerMessages :
       LoginFails(i, o, m)
  \/ Reload

SpecApi == Init /\ [][NextApi]_vars

\* ======================================================== properties
\* empty or white space only, stated without trim
IsBlank(str) == \A k \in 1..Len(str) : str[k] = " "

\* this step sends exactly one request, to url
SendsTo(url) ==
  /\ Len(inflight') = Len(inflight) + 1
  /\ SubSeq(inflight', 1, Len(inflight)) = inflight
  /\ inflight'[Len(inflight')].url = url

\* this step sends no request
SendsNothing == Len(inflight') <= Len(inflight)

\* this step is a run of the named handler
Runs(name) == lastOp'.op = name /\ vars' # vars

TabOrder == [form |-> 1, confirmation |-> 2, analyzing |-> 3, results |-> 4]

\* C1: a /legal/analyze request is sent only from the confirmation step, and
\* only after a /legal/confirm request has returned successfully since the
\* dashboard was mounted or last reset; never from the form step.
C1_AnalyzeOnlyAfterConfirm ==
  [][SendsTo("/legal/analyze") =>
       /\ activeTab = "confirmation"
       /\ confirmReturned
       /\ lastOp'.op = "handleConfirmAndAnalyze"]_vars

C1_Witness ==
  /\ lastOp.op = "handleConfirmAndAnalyze"
  /\ \E i \in 1..Len(inflight) : inflight[i].url = "/legal/analyze" /\ inflight[i].live
  /\ activeTab = "analyzing"

\* C2 as stated: every change of activeTab on the dashboard goes one step
\* forward in the order form, confirmation, analyzing, results.
C2_OnlyForward ==
  [][(DashboardShown /\ DashboardShown' /\ activeTab' # activeTab) =>
       TabOrder[activeTab'] = TabOrder[activeTab] + 1]_vars

\* C2 amended: every change of activeTab on the dashboard is one step forward
\* in the order form, confirmation, analyzing, results, or one of the moves
\* back confirmation -> form (Back to Edit), analyzing -> confirmation
\* (analysis failed), results -> form (resetForm); no step is skipped forward.
C2_ForwardOrBack ==
  [][(DashboardShown /\ DashboardShown' /\ activeTab' # activeTab) =>
       \/ TabOrder[activeTab'] = TabOrder[activeTab] + 1
       \/ activeTab = "confirmation" /\ activeTab' = "form" /\ lastOp'.op = "backToEdit"
       \/ activeTab = "analyzing" /\ activeTab' = "confirmation" /\ lastOp'.op = "analyze:thrown"
       \/ activeTab = "results" /\ activeTab' = "form" /\ lastOp'.op = "resetForm"]_vars

C2_Witness ==
  /\ DashboardShown
  /\ lastOp.op = "backToEdit"
  /\ activeTab = "form"
  /\ confirmation # NULL

\* C3: submitting the intake form while crime_code or jurisdiction is blank
\* sends no request, leaves activeTab at form and confirmation unchanged, and
\* errors holds the message of exactly each blank required field.
C3_BlankRequiredRejected ==
  [][(Runs("handleSubmitForConfirmation")
        /\ (IsBlank(formData.crime_code) \/ IsBlank(formData.jurisdiction))) =>
       /\ SendsNothing
       /\ inflight' = inflight
       /\ activeTab = "form" /\ activeTab' = "form"
       /\ confirmation' = confirmation
       /\ ("crime_code" \in DOMAIN errors') = IsBlank(formData.crime_code)
       /\ ("jurisdiction" \in DOMAIN errors') = IsBlank(formData.jurisdiction)
       /\ \A k \in DOMAIN errors' \cap {"crime_code"} : errors'[k] = MsgCrimeCode
       /\ \A k \in DOMAIN errors' \cap {"jurisdiction"} : errors'[k] = MsgJurisdiction]_vars

C3_Witness ==
  /\ lastOp.op = "handleSubmitForConfirmation"
  /\ formData.crime_code = <<" ">>
  /\ ~IsBlank(formData.jurisdiction)
  /\ DOMAIN errors = {"crime_code"}
  /\ inflight = <<>>

C6_LoginSuccess ==
  lastOp.op = "login:success" =>
    /\ TokenKey \in DOMAIN localStorage
    /\ localStorage[TokenKey] = lastOp.data.token
    /\ user = [username |-> lastOp.data.username]
    /\ isAuthenticated
    /\ AuthHeader \in DOMAIN headers
    /\ headers[AuthHeader] = "Bearer " \o lastOp.data.token
    /\ ~authLoading
    /\ loginResult = [success |-> TRUE]

C6_Witness ==
  /\ lastOp.op = "login:success"
  /\ lastOp.data.token = "t2"
  /\ isAuthenticated
  /\ DashboardShown

\* C7: right after logout localStorage has no precedent_token, the API client
\* has no Authorization header, user is null and isAuthenticated is false.
C7_LogoutClearsSession ==
  lastOp.op = "logout" =>
    /\ TokenKey \notin DOMAIN localStorage
    /\ AuthHeader \notin DOMAIN headers
    /\ user = NullObj
    /\ ~isAuthenticated

C7_Witness ==
  /\ lastOp.op = "logout"
  /\ LoginPageShown
  /\ headers = EmptyObj

\* C8 as stated: checkAuthStatus with a stored token sends a verify request,
\* login sends a login request, and logout sends a logout request.
C8_EachOperationCallsBackend ==
  [][/\ (Runs("checkAuthStatus") /\ TokenKey \in DOMAIN localStorage) =>
          SendsTo("/auth/verify")
     /\ (Runs("handleSubmit") /\ authLoading') => SendsTo("/auth/login")
     /\ Runs("logout") => SendsTo("/auth/logout")]_vars

\* C8 amended: checkAuthStatus with a stored token sends a verify request and
\* login sends a login request; logout sends no request, it only clears the
\* client's session state.
C8_OnlyVerifyAndLoginCallBackend ==
  [][/\ (Runs("checkAuthStatus") /\ TokenKey \in DOMAIN localStorage) =>
          SendsTo("/auth/verify")
     /\ (Runs("handleSubmit") /\ authLoading') => SendsTo("/auth/login")
     /\ Runs("logout") =>
          /\ Len(inflight') = Len(inflight)
          /\ \A i \in 1..Len(inflight') : inflight'[i].url = inflight[i].url]_vars

C8_Witness ==
  /\ lastOp.op = "logout"
  /\ Len(inflight) = 1
  /\ inflight[1].owner = "Dashboard"

\* C9: when /auth/verify answers success = false or throws, the token is
\* removed and the session stays unauthenticated; when no token is stored,
\* checkAuthStatus sends no request and the session stays unauthenticated; in
\* every case loading ends false.
C9_StartupVerification ==
  [][/\ (Runs("verify:rejected") \/ Runs("verify:thrown")) =>
          /\ TokenKey \in DOMAIN localStorage
          /\ TokenKey \notin DOMAIN localStorage'
          /\ user' = NullObj
          /\ ~isAuthenticated'
          /\ ~authLoading'
     /\ (Runs("checkAuthStatus") /\ TokenKey \notin DOMAIN localStorage) =>
          /\ inflight' = inflight
          /\ user' = NullObj
          /\ ~isAuthenticated'
          /\ ~authLoading'
     /\ Runs("verify:success") => ~authLoading']_vars

C9_Witness ==
  /\ lastOp.op = "verify:thrown"
  /\ localStorage = EmptyObj
  /\ ~isAuthenticated
  /\ ~authLoading

\* C10: when username or password is blank, handleSubmit does not call login:
\* no request is sent, the session state is unchanged, and errors holds the
\* message of exactly each blank field.
C10_LoginFormValidation ==
  [][(Runs("handleSubmit")
        /\ (IsBlank(loginFormData.username) \/ IsBlank(loginFormData.password))) =>
       /\ inflight' = inflight
       /\ UNCHANGED authVars
       /\ DOMAIN loginErrors' =
            {k \in {"username", "password"} : IsBlank(loginFormData[k])}
       /\ \A k \in DOMAIN loginErrors' \cap {"username"} : loginErrors'[k] = MsgUsername
       /\ \A k \in DOMAIN loginErrors' \cap {"password"} : loginErrors'[k] = MsgPassword]_vars

C10_Witness ==
  /\ lastOp.op = "handleSubmit"
  /\ loginFormData.password = <<" ">>
  /\ ~IsBlank(loginFormData.username)
  /\ loginErrors = [password |-> MsgPassword]
  /\ ~authLoading

\* C11: client storage never holds anything but the one key precedent_token,
\* whose value is a token: it is written only by a successful login, with the
\* token that login returned, and otherwise only removed; form data,
\* passwords, confirmations and analysis results are never written to it.
C11_OnlyTokenPersisted ==
  /\ [](/\ DOMAIN localStorage \subseteq {TokenKey}
        /\ \A k \in DOMAIN localStorage : localStorage[k] \in Tokens)
  /\ [][localStorage' # localStorage =>
          \/ /\ lastOp'.op = "login:success"
             /\ localStorage' = (TokenKey :> lastOp'.data.token)
          \/ /\ lastOp'.op \in {"logout", "verify:rejected", "verify:thrown"}
             /\ localStorage' = EmptyObj]_vars

C11_Witness ==
  /\ lastOp.op = "login:success"
  /\ localStorage = (TokenKey :> "t1")
  /\ headers = (AuthHeader :> "Bearer t1")
  /\ loginResult = [success |-> TRUE]

\* requests whose response a page on screen, or the AuthProvider, still handles
LiveRequests == {i \in 1..Len(inflight) : inflight[i].live}

\* C12 as stated: at every moment at most one HTTP request issued by the
\* client is awaiting its response.
C12_AtMostOneInFlight == Len(inflight) <= 1

\* C12 amended: at every moment at most one request is awaiting a response
\* that the page on screen or the AuthProvider will handle; a request sent by
\* a dashboard that logout has since taken off the screen can still be
\* awaiting its response while a later request is in flight.
C12_AtMostOneLiveRequest == Cardinality(LiveRequests) <= 1

C12_Witness ==
  /\ Len(inflight) = 2
  /\ ~inflight[1].live
  /\ inflight[1].url = "/legal/confirm"
  /\ inflight[2].live
  /\ inflight[2].url = "/auth/login"

\* the steps that begin with a user action or with the startup check
RequestingOps ==
  {"checkAuthStatus", "handleSubmit", "handleSubmitForConfirmation",
   "handleConfirmAndAnalyze"}

\* the continuations that run when a request has failed
FailureOps ==
  {"verify:rejected", "verify:thrown", "login:rejected", "login:thrown",
   "confirm:thrown", "analyze:thrown"}

\* C13: every step sends at most one request, only a user action (form
\* submit, Proceed with Analysis, Sign In) or the startup check sends one, and
\* the continuation that runs when a request has failed sends none.
C13_OneShotNoRetry ==
  [][/\ Len(inflight') <= Len(inflight) + 1
     /\ Len(inflight') > Len(inflight) =>
          /\ lastOp'.op \in RequestingOps
          /\ SubSeq(inflight', 1, Len(inflight)) = inflight
     /\ (lastOp'.op \in FailureOps /\ vars' # vars) =>
          \E i \in 1..Len(inflight) : inflight' = Without(inflight, i)]_vars

C13_Witness ==
  /\ lastOp.op = "confirm:thrown"
  /\ inflight = <<>>
  /\ DashboardShown
  /\ activeTab = "form"
  /\ ~loading

\* C14: the results tab is entered only when a /legal/analyze request
\* succeeds; analysis is then the response body, unmodified, and the payload
\* of that request is formData; while the results tab stays up neither
\* analysis nor formData changes.
C14_ResultsShowResponse ==
  [][/\ Runs("analyze:success") =>
          /\ activeTab' = "results"
          /\ analysis' = lastOp'.data.body
          /\ \E i \in 1..Len(inflight) :
               /\ inflight[i].url = "/legal/analyze"
               /\ inflight[i].live
               /\ inflight' = Without(inflight, i)
               /\ inflight[i].data = formData'
     /\ (activeTab' = "results" /\ ~Runs("analyze:success")) =>
          /\ activeTab = "results"
          /\ analysis' = analysis
          /\ formData' = formData]_vars

C14_Witness ==
  /\ activeTab = "results"
  /\ analysis = "analysis2"
  /\ lastOp.op = "staleResponse"
  /\ Len(formData.additional_info) = InfoLimit

\* C15: resetForm leaves formData with its three fields empty, confirmation
\* and analysis null, errors empty and activeTab at form, whatever state the
\* dashboard is in, and resetting twice gives the same state as resetting once.
C15_ResetFormInitial ==
  /\ lastOp.op = "resetForm" =>
       /\ formData = [crime_code |-> <<>>, jurisdiction |-> <<>>, additional_info |-> <<>>]
       /\ confirmation = NULL
       /\ analysis = NULL
       /\ errors = EmptyObj
       /\ activeTab = "form"
  /\ LET once == ResetFormResult(DashboardState)
     IN  /\ once.formData = [crime_code |-> <<>>, jurisdiction |-> <<>>, additional_info |-> <<>>]
         /\ once.confirmation = NULL
         /\ once.analysis = NULL
         /\ once.errors = EmptyObj
         /\ once.activeTab = "form"
         /\ ResetFormResult(once) = once

C15_Witness ==
  /\ lastOp.op = "resetForm"
  /\ DashboardShown
  /\ activeTab = "form"
  /\ formData = DashboardFormInit
  /\ analysis = NULL

\* C16: after any interleaving of checkAuthStatus, login and logout, whenever
\* isAuthenticated is true, user is non-null, localStorage holds a
\* precedent_token and the Authorization header is 'Bearer ' followed by the
\* stored token.
C16_AuthenticatedSessionConsistent ==
  isAuthenticated =>
    /\ user # NullObj
    /\ TokenKey \in DOMAIN localStorage
    /\ AuthHeader \in DOMAIN headers
    /\ headers[AuthHeader] = "Bearer " \o localStorage[TokenKey]

\* C17: once logout has run, and until login is called again, isAuthenticated
\* stays false, no token is stored and no Authorization header is set: the
\* response to a request started before the logout does not re-authenticate.
C17_LogoutNotUndone ==
  loggedOut =>
    /\ ~isAuthenticated
    /\ TokenKey \notin DOMAIN localStorage
    /\ AuthHeader \notin DOMAIN headers

OnConfirmedSteps == {"confirmation", "analyzing"}

\* C18: the confirmation and analyzing tabs are entered only when a
\* /legal/confirm request succeeds; confirmation is then its response and its
\* payload is formData; while either tab stays up neither formData nor
\* confirmation changes, and the payload of a /legal/analyze request is that
\* formData: the user analyzes exactly what was confirmed.
C18_AnalyzeWhatWasConfirmed ==
  [][/\ Runs("confirm:success") =>
          /\ activeTab' = "confirmation"
          /\ confirmation' = lastOp'.data.body
          /\ \E i \in 1..Len(inflight) :
               /\ inflight[i].url = "/legal/confirm"
               /\ inflight[i].live
               /\ inflight' = Without(inflight, i)
               /\ inflight[i].data = formData'
     /\ (activeTab' \in OnConfirmedSteps /\ ~Runs("confirm:success")) =>
          /\ activeTab \in OnConfirmedSteps
          /\ formData' = formData
          /\ confirmation' = confirmation
     /\ SendsTo("/legal/analyze") =>
          /\ activeTab = "confirmation"
          /\ inflight'[Len(inflight')].data = formData]_vars

C18_Witness ==
  /\ activeTab = "confirmation"
  /\ lastOp.op = "analyze:thrown"
  /\ confirmation = "summary2"
  /\ Len(formData.additional_info) = InfoLimit
  /\ ~loading

\* C19: when /legal/confirm fails activeTab stays at form, when /legal/analyze
\* fails activeTab returns from analyzing to confirmation; formData,
\* confirmation and analysis are what they were when the request was sent,
\* and loading ends false.
C19_FailureKeepsInput ==
  [][/\ Runs("confirm:thrown") =>
          /\ activeTab = "form" /\ activeTab' = "form"
          /\ \E i \in 1..Len(inflight) :
               /\ inflight[i].url = "/legal/confirm"
               /\ inflight' = Without(inflight, i)
               /\ inflight[i].data = formData'
          /\ confirmation' = confirmation
          /\ analysis' = analysis
          /\ ~loading'
     /\ Runs("analyze:thrown") =>
          /\ activeTab = "analyzing" /\ activeTab' = "confirmation"
          /\ \E i \in 1..Len(inflight) :
               /\ inflight[i].url = "/legal/analyze"
               /\ inflight' = Without(inflight, i)
               /\ inflight[i].data = formData'
          /\ confirmation' = confirmation
          /\ analysis' = analysis
          /\ ~loading'
     /\ (loading /\ loading') =>
          /\ formData' = formData
          /\ confirmation' = confirmation
          /\ analysis' = analysis]_vars

C19_Witness ==
  /\ lastOp.op = "confirm:thrown"
  /\ activeTab = "form"
  /\ confirmation = "summary1"
  /\ formData.crime_code = <<"a">>
  /\ Len(formData.additional_info) = InfoLimit
  /\ ~loading

====
